---- MODULE Spec2Model ----
(***************************************************************************)
(* Model of main.py: the paragraph-by-paragraph record assembler of        *)
(* doc_to_json and its post-processing pass.                               *)
(*                                                                         *)
(* A text is a sequence of one-character strings, so that the regular      *)
(* expressions of the source are modelled by what they match.  None is a   *)
(* value distinct from every text.                                         *)
(***************************************************************************)
EXTENDS Integers, Sequences, FiniteSets, TLC

\* ------------------------------------------------------------------------
\* Bounds
\* ------------------------------------------------------------------------

\* number of paragraphs of a document over the full set of paragraphs
MaxLines == 4

\* number of paragraphs of a document over the small set of paragraphs
MaxLinesDeep == 5

\* ------------------------------------------------------------------------
\* Characters and Python string primitives
\* ------------------------------------------------------------------------

None == <<"None">>

\* Python truthiness of an optional string: neither None nor ""
Truthy(v) == v # None /\ v # <<>>

\* the characters matched by \s and removed by str.strip()
Whitespace == {" ", "\n", "\t"}

UpperToLower ==
    [c \in {"A","B","C","D","E","F","G","H","I","J","K","L","M",
            "N","O","P","Q","R","S","T","U","V","W","X","Y","Z"} |->
       CASE c = "A" -> "a" [] c = "B" -> "b" [] c = "C" -> "c" [] c = "D" -> "d"
         [] c = "E" -> "e" [] c = "F" -> "f" [] c = "G" -> "g" [] c = "H" -> "h"
         [] c = "I" -> "i" [] c = "J" -> "j" [] c = "K" -> "k" [] c = "L" -> "l"
         [] c = "M" -> "m" [] c = "N" -> "n" [] c = "O" -> "o" [] c = "P" -> "p"
         [] c = "Q" -> "q" [] c = "R" -> "r" [] c = "S" -> "s" [] c = "T" -> "t"
         [] c = "U" -> "u" [] c = "V" -> "v" [] c = "W" -> "w" [] c = "X" -> "x"
         [] c = "Y" -> "y" [] c = "Z" -> "z"]

\* str.lower()
lower(t) == [i \in 1..Len(t) |-> IF t[i] \in DOMAIN UpperToLower
                                  THEN UpperToLower[t[i]] ELSE t[i]]

\* t[a..b] of Python slices, empty when a > b
Slice(t, a, b) == IF a > b THEN <<>> ELSE SubSeq(t, a, b)

startswith(t, p) == Len(p) <= Len(t) /\ Slice(t, 1, Len(p)) = p

\* t[i:].startswith(p), i a 1-based position
StartsAt(t, i, p) == i + Len(p) - 1 <= Len(t) /\ Slice(t, i, i + Len(p) - 1) = p

\* needle in t
Contains(t, p) == \E i \in 1..(Len(t) + 1) : StartsAt(t, i, p)

RECURSIVE lstrip(_)
lstrip(t) == IF t # <<>> /\ Head(t) \in Whitespace THEN lstrip(Tail(t)) ELSE t

RECURSIVE rstrip(_)
rstrip(t) == IF t # <<>> /\ t[Len(t)] \in Whitespace
             THEN rstrip(Slice(t, 1, Len(t) - 1)) ELSE t

\* str.strip()
strip(t) == rstrip(lstrip(t))

\* length of the whitespace run of t that starts at position i
RECURSIVE WsRun(_, _)
WsRun(t, i) == IF i <= Len(t) /\ t[i] \in Whitespace THEN 1 + WsRun(t, i + 1) ELSE 0

HasNewline(t) == \E i \in 1..Len(t) : t[i] = "\n"

Min(S) == CHOOSE x \in S : \A y \in S : x <= y

\* v.split(",")
RECURSIVE split_comma(_)
split_comma(t) ==
    LET cs == {i \in 1..Len(t) : t[i] = ","}
    IN  IF cs = {} THEN <<t>>
        ELSE <<Slice(t, 1, Min(cs) - 1)>> \o split_comma(Slice(t, Min(cs) + 1, Len(t)))

\* [v.strip() for v in value.split(",") if v.strip()]
SplitValues(t) ==
    LET parts == split_comma(t)
        stripped == [i \in 1..Len(parts) |-> strip(parts[i])]
    IN  SelectSeq(stripped, LAMBDA v : v # <<>>)

\* cleaned_line.split(":", 1)[1]
AfterFirstColon(t) ==
    LET cs == {i \in 1..Len(t) : t[i] = ":"}
    IN  Slice(t, Min(cs) + 1, Len(t))

\* ------------------------------------------------------------------------
\* clean_text and extract_url
\* ------------------------------------------------------------------------

\* the matches of \[.*?\]\((.*?)\) that start at position i, as <<j, k>>:
\* "]" at jk[1] directly followed by "(", ")" at jk[2], no newline under a dot
MdMatches(t, i) ==
    IF i > Len(t) \/ t[i] # "[" THEN {}
    ELSE {jk \in ((i + 1)..Len(t)) \X ((i + 3)..Len(t)) :
            /\ t[jk[1]] = "]"
            /\ jk[1] + 1 <= Len(t) /\ t[jk[1] + 1] = "("
            /\ jk[2] >= jk[1] + 2 /\ t[jk[2]] = ")"
            /\ ~HasNewline(Slice(t, i + 1, jk[1] - 1))
            /\ ~HasNewline(Slice(t, jk[1] + 2, jk[2] - 1))}

\* the match the lazy quantifiers select: the nearest "](", then the nearest ")"
MdMatch(t, i) ==
    LET ms == MdMatches(t, i)
        close == Min({jk[1] : jk \in ms})
        last  == Min({jk[2] : jk \in {m \in ms : m[1] = close}})
    IN  <<close, last>>

\* re.sub(r'\[.*?\]\((.*?)\)', r'\1', t), scanning from position i
RECURSIVE SubLinks(_, _)
SubLinks(t, i) ==
    IF i > Len(t) THEN <<>>
    ELSE IF MdMatches(t, i) # {}
         THEN LET m == MdMatch(t, i)
              IN  Slice(t, m[1] + 2, m[2] - 1) \o SubLinks(t, m[2] + 1)
         ELSE <<t[i]>> \o SubLinks(t, i + 1)

\* re.sub(r'[\*_]+', '', t)
RemoveEmphasis(t) == SelectSeq(t, LAMBDA c : c \notin {"*", "_"})

clean_text(text) == strip(SubLinks(RemoveEmphasis(text), 1))

\* the characters that end a bare URL: [^\s>"'\]\)]
UrlStop == Whitespace \cup {">", "\"", "'", "]", ")"}

\* length of the run of URL characters of t that starts at position i
RECURSIVE UrlRun(_, _)
UrlRun(t, i) == IF i <= Len(t) /\ t[i] \notin UrlStop THEN 1 + UrlRun(t, i + 1) ELSE 0

HTTP == <<"h","t","t","p",":","/","/">>
HTTPS == <<"h","t","t","p","s",":","/","/">>

\* length of the scheme https?:// at position i, 0 when there is none
SchemeLen(t, i) == IF StartsAt(t, i, HTTPS) THEN Len(HTTPS)
                   ELSE IF StartsAt(t, i, HTTP) THEN Len(HTTP) ELSE 0

\* re.match(r'https?://', t)
StartsWithScheme(t) == SchemeLen(t, 1) > 0

\* re.search(r'https?://[^\s>"\'\]\)]+', t) matches at position i
UrlAt(t, i) == SchemeLen(t, i) > 0 /\ UrlRun(t, i + SchemeLen(t, i)) > 0

extract_url(text) ==
    LET md  == {i \in 1..Len(text) : MdMatches(text, i) # {}}
        url == {i \in 1..Len(text) : UrlAt(text, i)}
    IN  IF md # {}
        THEN LET m == MdMatch(text, Min(md))
             IN  Slice(text, m[1] + 2, m[2] - 1)
        ELSE IF url # {}
             THEN LET i == Min(url)
                  IN  Slice(text, i, i + SchemeLen(text, i) + UrlRun(text, i + SchemeLen(text, i)) - 1)
             ELSE None

\* ------------------------------------------------------------------------
\* The schema of a record
\* ------------------------------------------------------------------------

ToolName == <<"T","o","o","l"," ","N","a","m","e">>
WebsiteLink == <<"W","e","b","s","i","t","e"," ","L","i","n","k">>
Logo == <<"L","o","g","o">>
Screenshots == <<"S","c","r","e","e","n","s","h","o","t","s">>
ShortDescription == <<"S","h","o","r","t"," ","D","e","s","c","r","i","p","t","i","o","n">>
FullDescription == <<"F","u","l","l"," ","D","e","s","c","r","i","p","t","i","o","n">>
Slug == <<"S","l","u","g">>
MetaTitle == <<"M","e","t","a"," ","T","i","t","l","e">>
MetaDescription == <<"M","e","t","a"," ","D","e","s","c","r","i","p","t","i","o","n">>
Category == <<"C","a","t","e","g","o","r","y">>
ProductType == <<"P","r","o","d","u","c","t"," ","T","y","p","e">>
Tags == <<"T","a","g","s">>

Introduction == <<"I","n","t","r","o","d","u","c","t","i","o","n">>
KeyFeatures == <<"K","e","y"," ","F","e","a","t","u","r","e","s">>
UseCases == <<"U","s","e"," ","C","a","s","e","s">>
HowItWorks == <<"H","o","w"," ","I","t"," ","W","o","r","k","s">>
WhyChoose == <<"W","h","y"," ","C","h","o","o","s","e">>
FutureVision == <<"F","u","t","u","r","e"," ","V","i","s","i","o","n">>
Conclusion == <<"C","o","n","c","l","u","s","i","o","n">>

FIELDS == <<ToolName, WebsiteLink, Logo, Screenshots, ShortDescription,
            FullDescription, Slug, MetaTitle, MetaDescription,
            Category, ProductType, Tags>>

ARRAY_FIELDS == <<Category, Tags, Screenshots>>

URL_FIELDS == <<WebsiteLink, Logo, Screenshots>>

FULL_DESCRIPTION_SUBSECTIONS == <<Introduction, KeyFeatures, UseCases, HowItWorks,
                                  WhyChoose, FutureVision, Conclusion>>

\* x in lst
In(x, lst) == \E i \in 1..Len(lst) : lst[i] = x

\* {field: [] if field in ARRAY_FIELDS else "" for field in FIELDS}, with
\* "Full Description" replaced by {sub: "" for sub in FULL_DESCRIPTION_SUBSECTIONS}
NewToolRecord ==
    [f \in {FIELDS[i] : i \in 1..Len(FIELDS)} |->
        IF f = FullDescription
        THEN [s \in {FULL_DESCRIPTION_SUBSECTIONS[i] : i \in 1..Len(FULL_DESCRIPTION_SUBSECTIONS)} |-> <<>>]
        ELSE <<>>]

\* current_tool = None
NoTool == [f \in {None} |-> TRUE]

\* a str object held where the schema has the subsection mapping: line 143
\* assigns the inline value of a "Full Description" declaration to the field
StrObject(text) == [s \in {None} |-> text]

\* isinstance(v, dict), for a value of the "Full Description" field
IsDict(v) == DOMAIN v # {None}

\* ------------------------------------------------------------------------
\* Line classification
\* ------------------------------------------------------------------------

\* position that follows the optional heading group (PREFIX\s*)?
AfterPrefix(t, prefix) ==
    IF startswith(t, prefix)
    THEN Len(prefix) + 1 + WsRun(t, Len(prefix) + 1)
    ELSE 1

\* position of the colon when the label (.*?) has length L from position p
ColonPos(t, p, L) == p + L + WsRun(t, p + L)

\* position where the value (.*) starts, after the colon and \s*
ValuePos(t, p, L) == ColonPos(t, p, L) + 1 + WsRun(t, ColonPos(t, p, L) + 1)

\* the label lengths for which (.*?)\s*:\s*(.*)?$ matches t from position p;
\* a dot matches no newline, and t is a stripped line
ColonLens(t, p) ==
    {L \in 0..(Len(t) - p + 1) :
        /\ ~HasNewline(Slice(t, p, p + L - 1))
        /\ ColonPos(t, p, L) <= Len(t)
        /\ t[ColonPos(t, p, L)] = ":"
        /\ ~HasNewline(Slice(t, ValuePos(t, p, L), Len(t)))}

\* the match object: group(2) as label, group(3) as value
ColonFrom(t, p) ==
    LET lens == ColonLens(t, p)
    IN  IF lens = {}
        THEN [matched |-> FALSE, label |-> <<>>, value |-> <<>>]
        ELSE LET L == Min(lens)
             IN  [matched |-> TRUE,
                  label   |-> Slice(t, p, p + L - 1),
                  value   |-> Slice(t, ValuePos(t, p, L), Len(t))]

\* re.match(r'^(PREFIX\s*)?(.*?)\s*:\s*(.*)?$', t): the heading group is
\* tried first, then the match without it
ColonMatch(t, prefix) ==
    LET m == ColonFrom(t, AfterPrefix(t, prefix))
    IN  IF m.matched THEN m ELSE ColonFrom(t, 1)

\* the ### pattern or else the ## pattern
field_match(t) ==
    LET m == ColonMatch(t, <<"#","#","#">>)
    IN  IF m.matched THEN m ELSE ColonMatch(t, <<"#","#">>)

\* next((f for f in FIELDS if f.lower() == field_candidate.lower()), None)
matched_field(t) ==
    LET m == field_match(t)
        field_candidate == clean_text(strip(m.label))
        hits == {i \in 1..Len(FIELDS) : lower(FIELDS[i]) = lower(field_candidate)}
    IN  IF m.matched /\ hits # {} THEN FIELDS[Min(hits)] ELSE None

\* field_match.group(3).strip() if field_match.group(3) else ""
field_value(t) == strip(field_match(t).value)

subsection_match(t) == ColonMatch(t, <<"#","#","#","#">>)

\* next((s for s in FULL_DESCRIPTION_SUBSECTIONS
\*       if subsection_candidate.lower().startswith(s.lower())), None)
matched_subsection(t) ==
    LET m == subsection_match(t)
        subsection_candidate == clean_text(strip(m.label))
        hits == {i \in 1..Len(FULL_DESCRIPTION_SUBSECTIONS) :
                    startswith(lower(subsection_candidate),
                               lower(FULL_DESCRIPTION_SUBSECTIONS[i]))}
    IN  IF m.matched /\ hits # {} THEN FULL_DESCRIPTION_SUBSECTIONS[Min(hits)] ELSE None

subsection_value(t) == strip(subsection_match(t).value)

\* re.match(r'^(###\s*)?Tool Name\s*:$', clean_text(line), re.IGNORECASE)
is_new_tool(t) ==
    LET cleaned_line == clean_text(t)
        p == AfterPrefix(cleaned_line, <<"#","#","#">>)
        c == p + Len(ToolName) + WsRun(cleaned_line, p + Len(ToolName))
    IN  /\ StartsAt(lower(cleaned_line), p, lower(ToolName))
        /\ c = Len(cleaned_line)
        /\ cleaned_line[c] = ":"

\* line.lower().startswith("logo:")
is_logo_line(t) == startswith(lower(t), <<"l","o","g","o",":">>)

\* line.lower().startswith("screenshots:")
is_screenshots_line(t) ==
    startswith(lower(t), <<"s","c","r","e","e","n","s","h","o","t","s",":">>)

\* ------------------------------------------------------------------------
\* The paragraphs a document is made of
\* ------------------------------------------------------------------------

\* a new-record marker with heading decoration: '### Tool Name:'
P_Marker == <<"#","#","#"," ","T","o","o","l"," ","N","a","m","e",":">>

\* a plain line: 'Acme'
P_Name == <<"A","c","m","e">>

\* a paragraph that is blank after strip(): ' '
P_Blank == <<" ">>

\* a line that clean_text empties: '**'
P_Emphasis == <<"*","*">>

\* Scenario C of the specification, first line: 'Website Link: https://acme'
P_Website == <<"W","e","b","s","i","t","e"," ","L","i","n","k",":"," ","h","t","t","p","s",":","/","/","a","c","m","e">>

\* Scenario C of the specification, second line: '.example/path'
P_Continuation == <<".","e","x","a","m","p","l","e","/","p","a","t","h">>

\* a URL field whose inline value holds no URL: 'Logo: acme'
P_LogoFragment == <<"L","o","g","o",":"," ","a","c","m","e">>

\* a bare URL: 'https://x'
P_Url == <<"h","t","t","p","s",":","/","/","x">>

\* a scheme with nothing after it: 'https://'
P_Scheme == <<"h","t","t","p","s",":","/","/">>

\* opens the screenshots list: 'Screenshots:'
P_Screenshots == <<"S","c","r","e","e","n","s","h","o","t","s",":">>

\* two entries that hold the same URL: 'Screenshots: https://x, https://x)'
P_ScreenshotsInline == <<"S","c","r","e","e","n","s","h","o","t","s",":"," ","h","t","t","p","s",":","/","/","x",","," ","h","t","t","p","s",":","/","/","x",")">>

\* a list value with a repeated entry: 'Tags: a, b, a'
P_Tags == <<"T","a","g","s",":"," ","a",","," ","b",","," ","a">>

\* a parsed category: 'Category: c'
P_Category == <<"C","a","t","e","g","o","r","y",":"," ","c">>

\* both keywords of the category default: 'Short Description: Writing Image'
P_Short == <<"S","h","o","r","t"," ","D","e","s","c","r","i","p","t","i","o","n",":"," ","W","r","i","t","i","n","g"," ","I","m","a","g","e">>

\* opens the long description: 'Full Description:'
P_Full == <<"F","u","l","l"," ","D","e","s","c","r","i","p","t","i","o","n",":">>

\* a subsection declaration: '#### Introduction: Image'
P_Intro == <<"#","#","#","#"," ","I","n","t","r","o","d","u","c","t","i","o","n",":"," ","I","m","a","g","e">>

\* a parsed product type: 'Product Type: AI Tool'
P_Product == <<"P","r","o","d","u","c","t"," ","T","y","p","e",":"," ","A","I"," ","T","o","o","l">>

\* a logo line with a line break in its value: 'logo: a\nb'
P_LogoBreak == <<"l","o","g","o",":"," ","a","\n","b">>

\* a screenshots line with a line break in its value: 'Screenshots: a\nb'
P_ScreenshotsBreak == <<"S","c","r","e","e","n","s","h","o","t","s",":"," ","a","\n","b">>

\* the long description declared with an inline value: 'Full Description: x'
P_FullInline == <<"F","u","l","l"," ","D","e","s","c","r","i","p","t","i","o","n",":"," ","x">>

\* a link whose target is a link: '[a]([b](c))'
P_Nested == <<"[","a","]","(","[","b","]","(","c",")",")">>

\* a URL field declared without a value: 'Logo:'
P_LogoEmpty == <<"L","o","g","o",":">>

Paragraphs ==
    {P_Marker, P_Name, P_Blank, P_Emphasis,
     P_Website, P_Continuation, P_LogoFragment, P_Url,
     P_Scheme, P_Screenshots, P_ScreenshotsInline, P_Tags,
     P_Category, P_Short, P_Full, P_Intro,
     P_Product, P_LogoBreak, P_ScreenshotsBreak, P_FullInline, P_Nested,
     P_LogoEmpty}

\* the paragraphs the longer documents are made of
DeepParagraphs ==
    {P_Marker, P_Name, P_Emphasis, P_LogoEmpty, P_Category, P_Full, P_Intro}

\* what the loop body computes from the paragraph alone: line 67, line 71
\* and the tests of lines 74, 100, 118-122, 146, 160 and 186-193
Scanned(para) ==
    [line             |-> strip(para),
     cleaned_line     |-> clean_text(strip(para)),
     new_tool         |-> is_new_tool(strip(para)),
     scheme           |-> StartsWithScheme(strip(para)),
     field            |-> matched_field(strip(para)),
     value            |-> field_value(strip(para)),
     logo             |-> is_logo_line(strip(para)),
     screenshots      |-> is_screenshots_line(strip(para)),
     subsection       |-> matched_subsection(strip(para)),
     subsection_value |-> subsection_value(strip(para)),
     deep             |-> para \in DeepParagraphs]

\* the paragraphs of the document, as scanned
Scans == {Scanned(para) : para \in Paragraphs}

\* ------------------------------------------------------------------------
\* State of doc_to_json
\* ------------------------------------------------------------------------

VARIABLES
    document,                 \* the kind of document read: "wide" (up to MaxLines
                              \* of Paragraphs) or "deep" (up to MaxLinesDeep of
                              \* DeepParagraphs)
    all_tools,                \* the output collection
    current_tool,             \* the record under construction, or NoTool
    current_key,              \* the field in progress, or None
    current_subsection,       \* the subsection in progress, or None
    in_full_description,
    in_screenshots,
    partial_url,              \* the pending URL fragment, or None
    expect_tool_name_value,
    line,                     \* the stripped text of the paragraph in hand
    n,                        \* number of paragraphs consumed
    pc,                       \* "parse", "post", "done" or "error"
    k                         \* index of the record the post-processing loop is at

vars == <<document, all_tools, current_tool, current_key, current_subsection,
          in_full_description, in_screenshots, partial_url,
          expect_tool_name_value, line, n, pc, k>>

\* the length the documents of this kind are bounded by
Limit == IF document = "wide" THEN MaxLines ELSE MaxLinesDeep

Init ==
    /\ document \in {"wide", "deep"}
    /\ all_tools = <<>>
    /\ current_tool = NoTool
    /\ current_key = None
    /\ current_subsection = None
    /\ in_full_description = FALSE
    /\ in_screenshots = FALSE
    /\ partial_url = None
    /\ expect_tool_name_value = FALSE
    /\ line = None
    /\ n = 0
    /\ pc = "parse"
    /\ k = 1

\* ------------------------------------------------------------------------
\* The loop over document.paragraphs
\* ------------------------------------------------------------------------

\* for para in document.paragraphs: line = para.text.strip()
Read(p) ==
    /\ pc = "parse"
    /\ n < Limit
    /\ document = "deep" => p.deep
    /\ n' = n + 1
    /\ document' = document
    /\ line' = p.line
    /\ k' = k

\* Emit with the record put first: all_tools.insert(0, current_tool)
EmitFirst(tools, tool) == <<tool>> \o tools

\* Emit with the record put over the last emitted one
EmitOverLast(tools, tool) ==
    IF tools = <<>> THEN <<tool>> ELSE [tools EXCEPT ![Len(tools)] = tool]

\* all_tools.append(current_tool)
Emit(tools, tool) == Append(tools, tool)

\* EmitIfNamed with the code of lines 221-225 run before the append: the
\* pending fragment goes to the field in progress of the record being closed
EmitFinalizedIfNamed(tools, tool) ==
    IF tool # NoTool /\ tool[ToolName] # <<>>
    THEN Append(tools,
                IF Truthy(partial_url) /\ In(current_key, URL_FIELDS)
                THEN IF current_key = Screenshots
                     THEN [tool EXCEPT ![Screenshots] = Append(@, partial_url)]
                     ELSE [tool EXCEPT ![current_key] = partial_url]
                ELSE tool)
    ELSE tools

\* EmitIfNamed without the test of the Tool Name: if current_tool: ...
EmitIfOpen(tools, tool) == IF tool # NoTool THEN Append(tools, tool) ELSE tools

\* if current_tool and current_tool.get("Tool Name"): all_tools.append(current_tool)
EmitIfNamed(tools, tool) ==
    IF tool # NoTool /\ tool[ToolName] # <<>> THEN Emit(tools, tool) ELSE tools

\* the pending or completed URL goes to the field in progress:
\* appended to Screenshots, assigned to any other field
AssignUrl(tool, key, url) ==
    IF key = Screenshots
    THEN [tool EXCEPT ![Screenshots] = Append(@, url)]
    ELSE [tool EXCEPT ![key] = url]

\* the line reaches the code after the three early exits of the loop body
Open(p) ==
    /\ p.line # <<>>
    /\ ~p.new_tool
    /\ ~expect_tool_name_value
    /\ current_tool # NoTool

\* PastPendingUrl with the test of line 99 left out
PendingUrlIgnored(p) == Open(p)

\* the line reaches the code after the "if partial_url: ... continue" block
PastPendingUrl(p) ==
    /\ Open(p)
    /\ ~Truthy(partial_url)

\* the line reaches the code after the generic field detection
Undeclared(p) ==
    /\ PastPendingUrl(p)
    /\ p.field = None
    /\ ~p.logo
    /\ ~p.screenshots

\* if not line: continue
SkipBlank(p) ==
    /\ Read(p)
    /\ p.line = <<>>
    /\ pc' = pc
    /\ UNCHANGED <<all_tools, current_tool, current_key, current_subsection,
                   in_full_description, in_screenshots, partial_url,
                   expect_tool_name_value>>

\* NewTool without line 85: the pending fragment survives the marker
NewToolKeepsPending(p) ==
    /\ Read(p)
    /\ p.line # <<>>
    /\ p.new_tool
    /\ all_tools' = EmitIfNamed(all_tools, current_tool)
    /\ current_tool' = NewToolRecord
    /\ current_key' = ToolName
    /\ current_subsection' = None
    /\ in_full_description' = FALSE
    /\ in_screenshots' = FALSE
    /\ partial_url' = partial_url
    /\ expect_tool_name_value' = TRUE
    /\ pc' = pc

\* if is_new_tool(line): ...
NewTool(p) ==
    /\ Read(p)
    /\ p.line # <<>>
    /\ p.new_tool
    /\ all_tools' = EmitIfNamed(all_tools, current_tool)
    /\ current_tool' = NewToolRecord
    /\ current_key' = ToolName
    /\ current_subsection' = None
    /\ in_full_description' = FALSE
    /\ in_screenshots' = FALSE
    /\ partial_url' = None
    /\ expect_tool_name_value' = TRUE
    /\ pc' = pc

\* SetToolName without line 92: the flag stays set
SetToolNamePersistent(p) ==
    /\ Read(p)
    /\ p.line # <<>>
    /\ ~p.new_tool
    /\ expect_tool_name_value
    /\ current_tool' = [current_tool EXCEPT ![ToolName] = p.cleaned_line]
    /\ expect_tool_name_value' = expect_tool_name_value
    /\ pc' = pc
    /\ UNCHANGED <<all_tools, current_key, current_subsection,
                   in_full_description, in_screenshots, partial_url>>

\* if expect_tool_name_value: ...
SetToolName(p) ==
    /\ Read(p)
    /\ p.line # <<>>
    /\ ~p.new_tool
    /\ expect_tool_name_value
    /\ current_tool' = [current_tool EXCEPT ![ToolName] = p.cleaned_line]
    /\ expect_tool_name_value' = FALSE
    /\ pc' = pc
    /\ UNCHANGED <<all_tools, current_key, current_subsection,
                   in_full_description, in_screenshots, partial_url>>

\* if current_tool is None: continue
SkipNoTool(p) ==
    /\ Read(p)
    /\ p.line # <<>>
    /\ ~p.new_tool
    /\ ~expect_tool_name_value
    /\ current_tool = NoTool
    /\ pc' = pc
    /\ UNCHANGED <<all_tools, current_tool, current_key, current_subsection,
                   in_full_description, in_screenshots, partial_url,
                   expect_tool_name_value>>

\* if partial_url: ...
PendingUrl(p) ==
    LET cleaned_line == p.cleaned_line
        joined == partial_url \o <<" ">> \o cleaned_line
        complete_url == extract_url(joined)
    IN  /\ Read(p)
        /\ Open(p)
        /\ Truthy(partial_url)
        /\ IF p.scheme
           THEN /\ current_tool' = AssignUrl(current_tool, current_key, partial_url)
                /\ partial_url' = extract_url(cleaned_line)
           ELSE IF Truthy(complete_url)
                THEN /\ current_tool' = AssignUrl(current_tool, current_key, complete_url)
                     /\ partial_url' = None
                ELSE /\ current_tool' = current_tool
                     /\ partial_url' = joined
        /\ pc' = pc
        /\ UNCHANGED <<all_tools, current_key, current_subsection,
                       in_full_description, in_screenshots, expect_tool_name_value>>

\* if matched_field: ...
FieldDeclaration(p) ==
    LET key == p.field
        value == p.value
        url == extract_url(value)
    IN  /\ Read(p)
        /\ PastPendingUrl(p)
        /\ key # None
        /\ current_key' = key
        /\ in_full_description' = (key = FullDescription)
        /\ in_screenshots' = (key = Screenshots)
        /\ current_subsection' = None
        /\ IF value = <<>>
           THEN UNCHANGED <<current_tool, partial_url>>
           ELSE IF In(key, ARRAY_FIELDS)
                THEN /\ current_tool' = [current_tool EXCEPT ![key] = SplitValues(value)]
                     /\ partial_url' = partial_url
                ELSE IF In(key, URL_FIELDS)
                     THEN IF Truthy(url)
                          THEN /\ current_tool' =
                                    IF key = Screenshots
                                    THEN [current_tool EXCEPT ![Screenshots] = <<url>>]
                                    ELSE [current_tool EXCEPT ![key] = url]
                               /\ partial_url' = partial_url
                          ELSE /\ current_tool' = current_tool
                               /\ partial_url' = value
                     ELSE /\ current_tool' =
                                 [current_tool EXCEPT
                                    ![key] = IF key = FullDescription
                                             THEN StrObject(value) ELSE value]
                          /\ partial_url' = partial_url
        /\ pc' = pc
        /\ UNCHANGED <<all_tools, expect_tool_name_value>>

\* LogoDeclaration without line 150: the long-description mode stays as it is
LogoDeclarationKeepsMode(p) ==
    LET value == strip(AfterFirstColon(p.cleaned_line))
        url == extract_url(value)
    IN  /\ Read(p)
        /\ PastPendingUrl(p)
        /\ p.field = None
        /\ p.logo
        /\ current_key' = Logo
        /\ in_screenshots' = FALSE
        /\ in_full_description' = in_full_description
        /\ current_subsection' = None
        /\ IF Truthy(url)
           THEN /\ current_tool' = [current_tool EXCEPT ![Logo] = url]
                /\ partial_url' = partial_url
           ELSE /\ current_tool' = current_tool
                /\ partial_url' = IF value # <<>> THEN value ELSE partial_url
        /\ pc' = pc
        /\ UNCHANGED <<all_tools, expect_tool_name_value>>

\* if line.lower().startswith("logo:"): ...
LogoDeclaration(p) ==
    LET value == strip(AfterFirstColon(p.cleaned_line))
        url == extract_url(value)
    IN  /\ Read(p)
        /\ PastPendingUrl(p)
        /\ p.field = None
        /\ p.logo
        /\ current_key' = Logo
        /\ in_screenshots' = FALSE
        /\ in_full_description' = FALSE
        /\ current_subsection' = None
        /\ IF Truthy(url)
           THEN /\ current_tool' = [current_tool EXCEPT ![Logo] = url]
                /\ partial_url' = partial_url
           ELSE /\ current_tool' = current_tool
                /\ partial_url' = IF value # <<>> THEN value ELSE partial_url
        /\ pc' = pc
        /\ UNCHANGED <<all_tools, expect_tool_name_value>>

\* if line.lower().startswith("screenshots:"): ...
ScreenshotsDeclaration(p) ==
    LET value == strip(AfterFirstColon(p.cleaned_line))
        url == extract_url(value)
    IN  /\ Read(p)
        /\ PastPendingUrl(p)
        /\ p.field = None
        /\ ~p.logo
        /\ p.screenshots
        /\ current_key' = Screenshots
        /\ in_screenshots' = TRUE
        /\ in_full_description' = FALSE
        /\ current_subsection' = None
        /\ IF Truthy(url)
           THEN /\ current_tool' = [current_tool EXCEPT ![Screenshots] = Append(@, url)]
                /\ partial_url' = partial_url
           ELSE /\ current_tool' = current_tool
                /\ partial_url' = IF value # <<>> THEN value ELSE partial_url
        /\ pc' = pc
        /\ UNCHANGED <<all_tools, expect_tool_name_value>>

\* ScreenshotsItem without the "continue" of line 183 for a line that leaves
\* the list: the line goes on to the general continuation of lines 203-205,
\* which extends the list field in progress
ScreenshotsItemFallThrough(p) ==
    LET cleaned_line == p.cleaned_line
        url == extract_url(cleaned_line)
    IN  /\ Read(p)
        /\ Undeclared(p)
        /\ in_screenshots
        /\ IF Truthy(url)
           THEN /\ current_tool' = [current_tool EXCEPT ![Screenshots] = Append(@, url)]
                /\ UNCHANGED <<partial_url, in_screenshots>>
           ELSE IF StartsWithScheme(cleaned_line)
                THEN /\ partial_url' = cleaned_line
                     /\ UNCHANGED <<current_tool, in_screenshots>>
                ELSE /\ in_screenshots' = FALSE
                     /\ current_tool' = [current_tool EXCEPT
                                           ![current_key] = @ \o SplitValues(cleaned_line)]
                     /\ partial_url' = partial_url
        /\ pc' = pc
        /\ UNCHANGED <<all_tools, current_key, current_subsection,
                       in_full_description, expect_tool_name_value>>

\* if in_screenshots: ...
ScreenshotsItem(p) ==
    LET cleaned_line == p.cleaned_line
        url == extract_url(cleaned_line)
    IN  /\ Read(p)
        /\ Undeclared(p)
        /\ in_screenshots
        /\ IF Truthy(url)
           THEN /\ current_tool' = [current_tool EXCEPT ![Screenshots] = Append(@, url)]
                /\ UNCHANGED <<partial_url, in_screenshots>>
           ELSE IF StartsWithScheme(cleaned_line)
                THEN /\ partial_url' = cleaned_line
                     /\ UNCHANGED <<current_tool, in_screenshots>>
                ELSE /\ in_screenshots' = FALSE
                     /\ UNCHANGED <<current_tool, partial_url>>
        /\ pc' = pc
        /\ UNCHANGED <<all_tools, current_key, current_subsection,
                       in_full_description, expect_tool_name_value>>

\* if in_full_description: ...
\* (an item assignment into a str object raises TypeError)
DescriptionLine(p) ==
    LET cleaned_line == p.cleaned_line
        sub == p.subsection
    IN  /\ Read(p)
        /\ Undeclared(p)
        /\ ~in_screenshots
        /\ in_full_description
        /\ IF sub # None
           THEN /\ current_subsection' = sub
                /\ IF IsDict(current_tool[FullDescription])
                   THEN /\ current_tool' = [current_tool EXCEPT
                                              ![FullDescription][sub] = p.subsection_value]
                        /\ pc' = pc
                   ELSE /\ current_tool' = current_tool
                        /\ pc' = "error"
           ELSE IF current_subsection # None
                THEN /\ current_subsection' = current_subsection
                     /\ IF IsDict(current_tool[FullDescription])
                        THEN /\ current_tool' = [current_tool EXCEPT
                                                   ![FullDescription][current_subsection] =
                                                       @ \o <<" ">> \o cleaned_line]
                             /\ pc' = pc
                        ELSE /\ current_tool' = current_tool
                             /\ pc' = "error"
                ELSE /\ pc' = pc
                     /\ UNCHANGED <<current_tool, current_subsection>>
        /\ UNCHANGED <<all_tools, current_key, in_full_description, in_screenshots,
                       partial_url, expect_tool_name_value>>

\* if current_key and not in_screenshots and not in_full_description: ...
\* (a str added to the Full Description mapping raises TypeError)
Continuation(p) ==
    LET cleaned_line == p.cleaned_line
        url == extract_url(cleaned_line)
    IN  /\ Read(p)
        /\ Undeclared(p)
        /\ ~in_screenshots
        /\ ~in_full_description
        /\ IF current_key = None
           THEN /\ pc' = pc
                /\ UNCHANGED <<current_tool, partial_url>>
           ELSE IF In(current_key, ARRAY_FIELDS)
                THEN /\ current_tool' = [current_tool EXCEPT
                                           ![current_key] = @ \o SplitValues(cleaned_line)]
                     /\ pc' = pc
                     /\ partial_url' = partial_url
                ELSE IF In(current_key, URL_FIELDS)
                     THEN /\ pc' = pc
                          /\ IF current_tool[current_key] # <<>>
                             THEN UNCHANGED <<current_tool, partial_url>>
                             ELSE IF Truthy(url)
                                  THEN /\ current_tool' = AssignUrl(current_tool, current_key, url)
                                       /\ partial_url' = partial_url
                                  ELSE /\ current_tool' = current_tool
                                       /\ partial_url' = cleaned_line
                     ELSE IF current_key = FullDescription
                          THEN IF IsDict(current_tool[FullDescription])
                               THEN /\ pc' = "error"
                                    /\ UNCHANGED <<current_tool, partial_url>>
                               ELSE /\ current_tool' =
                                         [current_tool EXCEPT
                                            ![FullDescription] =
                                               StrObject(@[None] \o <<" ">> \o cleaned_line)]
                                    /\ pc' = pc
                                    /\ partial_url' = partial_url
                          ELSE /\ current_tool' = [current_tool EXCEPT
                                                     ![current_key] = @ \o <<" ">> \o cleaned_line]
                               /\ pc' = pc
                               /\ partial_url' = partial_url
        /\ UNCHANGED <<all_tools, current_key, current_subsection, in_full_description,
                       in_screenshots, expect_tool_name_value>>

\* Finalized without lines 221-225: the pending fragment is dropped
FinalizedDiscard(tool, key, fragment) == tool

\* if partial_url and current_key in URL_FIELDS: the pending fragment goes to
\* the field in progress
Finalized(tool, key, fragment) ==
    IF Truthy(fragment) /\ In(key, URL_FIELDS) THEN AssignUrl(tool, key, fragment) ELSE tool

\* the code after the loop, "Add the last tool"; the emitted record and
\* current_tool are the same object
EndOfInput ==
    /\ pc = "parse"
    /\ IF current_tool # NoTool /\ current_tool[ToolName] # <<>>
       THEN /\ current_tool' = Finalized(current_tool, current_key, partial_url)
            /\ all_tools' = Emit(all_tools, current_tool')
       ELSE UNCHANGED <<all_tools, current_tool>>
    /\ pc' = "post"
    /\ k' = 1
    /\ UNCHANGED <<document, current_key, current_subsection, in_full_description,
                   in_screenshots, partial_url, expect_tool_name_value, line, n>>

\* ------------------------------------------------------------------------
\* Post-processing
\* ------------------------------------------------------------------------

\* the orders in which list(set(...)) can enumerate the set S
Orders(S) ==
    {s \in [1..Cardinality(S) -> S] : \A i, j \in 1..Cardinality(S) : s[i] = s[j] => i = j}

Elements(lst) == {lst[i] : i \in 1..Len(lst)}

\* filter(None, lst)
FilterNone(lst) == SelectSeq(lst, LAMBDA v : Truthy(v))

\* tool[field] = list(set(filter(None, tool[field]))) for field in ARRAY_FIELDS
Deduplicated(tool) ==
    {[tool EXCEPT ![Category] = oc, ![Tags] = ot, ![Screenshots] = os] :
        oc \in Orders(Elements(FilterNone(tool[Category]))),
        ot \in Orders(Elements(FilterNone(tool[Tags]))),
        os \in Orders(Elements(FilterNone(tool[Screenshots])))}

\* ExtractOrKeep without the "or url"
ExtractOnly(url) == extract_url(url)

\* extract_url(url) or url
ExtractOrKeep(url) == IF Truthy(extract_url(url)) THEN extract_url(url) ELSE url

\* the loop over URL_FIELDS
ResolveUrls(tool) ==
    [tool EXCEPT ![WebsiteLink] = ExtractOrKeep(@),
                 ![Logo] = ExtractOrKeep(@),
                 ![Screenshots] = [i \in 1..Len(@) |-> ExtractOrKeep(@[i])]]

\* tool["Full Description"][subsection] = clean_text(...).strip()
CleanSubsections(tool) ==
    [tool EXCEPT ![FullDescription] = [s \in DOMAIN @ |-> strip(clean_text(@[s]))]]

AI_TOOL == <<"A","I"," ","T","o","o","l">>
AI_WRITING_ASSISTANT ==
    <<"A","I"," ","W","r","i","t","i","n","g"," ","A","s","s","i","s","t","a","n","t">>
AI_IMAGE_GENERATION_TOOL ==
    <<"A","I"," ","I","m","a","g","e"," ","G","e","n","e","r","a","t","i","o","n"," ","T","o","o","l">>
WRITING == <<"W","r","i","t","i","n","g">>
IMAGE == <<"I","m","a","g","e">>

\* DefaultProductType without the default
KeepProductType(tool) == tool

\* if not tool["Product Type"]: tool["Product Type"] = "AI Tool"
DefaultProductType(tool) ==
    IF tool[ProductType] = <<>> THEN [tool EXCEPT ![ProductType] = AI_TOOL] ELSE tool

\* the keyword a default category is chosen by occurs in the record
Mentions(tool, word) ==
    \/ Contains(tool[ShortDescription], word)
    \/ Contains(tool[FullDescription][Introduction], word)

\* DefaultCategory with the two keyword tests in the other order
DefaultCategoryImageFirst(tool) ==
    IF tool[Category] # <<>> THEN tool
    ELSE IF Mentions(tool, IMAGE)
         THEN [tool EXCEPT ![Category] = <<AI_IMAGE_GENERATION_TOOL>>]
         ELSE IF Mentions(tool, WRITING)
              THEN [tool EXCEPT ![Category] = <<AI_WRITING_ASSISTANT>>]
              ELSE [tool EXCEPT ![Category] = <<AI_TOOL>>]

\* if not tool["Category"]: ...
DefaultCategory(tool) ==
    IF tool[Category] # <<>> THEN tool
    ELSE IF Mentions(tool, WRITING)
         THEN [tool EXCEPT ![Category] = <<AI_WRITING_ASSISTANT>>]
         ELSE IF Mentions(tool, IMAGE)
              THEN [tool EXCEPT ![Category] = <<AI_IMAGE_GENERATION_TOOL>>]
              ELSE [tool EXCEPT ![Category] = <<AI_TOOL>>]

\* the results one iteration of "for tool in all_tools" can leave in tool
PostProcessed(tool) ==
    {DefaultCategory(DefaultProductType(CleanSubsections(ResolveUrls(d)))) :
        d \in Deduplicated(tool)}

\* what an iteration that fails at line 243 has done to tool by then: indexing
\* a str object with a subsection name raises TypeError
PostProcessedUntilError(tool) == {ResolveUrls(d) : d \in Deduplicated(tool)}

\* one iteration of the post-processing loop; the last record is the object
\* current_tool refers to when the code after the loop emitted it
PostProcess ==
    /\ pc = "post"
    /\ k <= Len(all_tools)
    /\ \E r \in IF IsDict(all_tools[k][FullDescription])
                 THEN PostProcessed(all_tools[k])
                 ELSE PostProcessedUntilError(all_tools[k]) :
          /\ all_tools' = [all_tools EXCEPT ![k] = r]
          /\ current_tool' =
                IF k = Len(all_tools) /\ current_tool # NoTool /\ current_tool[ToolName] # <<>>
                THEN r ELSE current_tool
    /\ IF IsDict(all_tools[k][FullDescription])
       THEN k' = k + 1 /\ pc' = pc
       ELSE k' = k /\ pc' = "error"
    /\ UNCHANGED <<document, current_key, current_subsection, in_full_description,
                   in_screenshots, partial_url, expect_tool_name_value, line, n>>

\* json.dump(all_tools, f, ...)
Save ==
    /\ pc = "post"
    /\ k > Len(all_tools)
    /\ pc' = "done"
    /\ UNCHANGED <<document, all_tools, current_tool, current_key, current_subsection,
                   in_full_description, in_screenshots, partial_url,
                   expect_tool_name_value, line, n, k>>

Next ==
    \/ \E p \in Scans :
          \/ SkipBlank(p)
          \/ NewTool(p)
          \/ SetToolName(p)
          \/ SkipNoTool(p)
          \/ PendingUrl(p)
          \/ FieldDeclaration(p)
          \/ LogoDeclaration(p)
          \/ ScreenshotsDeclaration(p)
          \/ ScreenshotsItem(p)
          \/ DescriptionLine(p)
          \/ Continuation(p)
    \/ EndOfInput
    \/ PostProcess
    \/ Save

Spec == Init /\ [][Next]_vars

\* ------------------------------------------------------------------------
\* Vocabulary of the properties
\* ------------------------------------------------------------------------

\* the record has been opened and carries a Tool Name
Named(tool) == tool # NoTool /\ tool[ToolName] # <<>>

\* this step processes one paragraph of the document
ParagraphStep == pc = "parse" /\ n' = n + 1

\* this step processes a NewRecordMarker line
MarkerStep == ParagraphStep /\ line' # <<>> /\ is_new_tool(line')

\* this step is the code that runs when the input has ended
EndStep == pc = "parse" /\ pc' = "post"

\* this step post-processes record k
PostStep == pc = "post" /\ k' = k + 1

\* record i of the output has been post-processed
PostDone(i) == pc \in {"post", "done"} /\ i \in 1..Len(all_tools) /\ i < k

\* number of times entry e occurs in lst
Count(lst, e) == Cardinality({i \in 1..Len(lst) : lst[i] = e})

\* the two lists hold the same entries the same number of times
SameEntries(a, b) ==
    /\ Len(a) = Len(b)
    /\ \A e \in Elements(a) \cup Elements(b) : Count(a, e) = Count(b, e)

\* the two records agree in every field, list fields compared without order
SameRecord(a, b) ==
    \A f \in DOMAIN a :
        IF In(f, ARRAY_FIELDS) THEN SameEntries(a[f], b[f]) ELSE a[f] = b[f]

\* ------------------------------------------------------------------------
\* Properties
\* ------------------------------------------------------------------------

\* C1: every record of the output collection has a non-empty Tool Name; the
\* collection grows only by a record whose Tool Name is non-empty at that
\* moment, and a marker that finds the open record without a Tool Name
\* leaves the collection as it is (the record is dropped).
C1_OnlyNamedRecordsEmitted ==
    [][ /\ \A i \in 1..Len(all_tools') : all_tools'[i][ToolName] # <<>>
        /\ (pc = "parse" /\ all_tools' # all_tools) => Named(current_tool)
        /\ (MarkerStep /\ ~Named(current_tool)) => all_tools' = all_tools
        /\ (MarkerStep /\ Named(current_tool)) => all_tools' = Append(all_tools, current_tool)
      ]_vars

\* C1 witness: marker, name, marker - the named record was emitted when the
\* second marker arrived
C1_Witness ==
    /\ pc = "parse" /\ n = 3
    /\ expect_tool_name_value
    /\ current_tool = NewToolRecord
    /\ Len(all_tools) = 1
    /\ all_tools[1][ToolName] = P_Name

\* C2: a Website Link declared with an inline fragment F that begins with a
\* web scheme, followed by a continuation line G that does not, ends up as
\* F immediately followed by G.
C2_SplitUrlIsConcatenated ==
    [][ ( /\ ParagraphStep
          /\ current_tool # NoTool /\ ~expect_tool_name_value
          /\ line # None /\ matched_field(line) = WebsiteLink
          /\ StartsWithScheme(field_value(line))
          /\ current_key = WebsiteLink
          /\ line' # <<>> /\ ~is_new_tool(line') /\ ~StartsWithScheme(line')
          /\ matched_field(line') = None )
        => current_tool'[WebsiteLink] = field_value(line) \o clean_text(line')
      ]_vars

\* C3: post-processing the post-processed records once more changes no field
\* of any record, list fields compared as multisets.
C3_PostProcessingIdempotent ==
    pc = "done" =>
        \A i \in 1..Len(all_tools) :
            \A r \in PostProcessed(all_tools[i]) : SameRecord(r, all_tools[i])

\* C4: no list field of a post-processed record holds the same entry twice.
C4_NoRepeatedEntries ==
    \A i \in 1..Len(all_tools) :
        PostDone(i) =>
            \A f \in Elements(ARRAY_FIELDS) :
                \A e \in Elements(all_tools[i][f]) : Count(all_tools[i][f], e) = 1

\* C5: no list field of a post-processed record holds an empty-string or
\* null entry.
C5_NoEmptyEntries ==
    \A i \in 1..Len(all_tools) :
        PostDone(i) =>
            \A f \in Elements(ARRAY_FIELDS) :
                \A e \in Elements(all_tools[i][f]) : e # <<>> /\ e # None

\* C5 witness: marker, name, "Screenshots: a<newline>b" - the fragment was
\* appended at end of input and, holding no URL, kept by the post-processor
C5_Witness ==
    /\ PostDone(1) /\ n = 3
    /\ all_tools[1][Screenshots] = << <<"a", "\n", "b">> >>

\* C6 as claimed: Product Type is non-empty after post-processing, equals
\* "AI Tool" exactly when parsing left it empty, and otherwise is the parsed
\* value.
C6_SentinelExactlyWhenEmpty ==
    [][ PostStep =>
          /\ all_tools'[k][ProductType] # <<>>
          /\ (all_tools'[k][ProductType] = AI_TOOL) <=> (all_tools[k][ProductType] = <<>>)
          /\ all_tools[k][ProductType] # <<>> =>
                all_tools'[k][ProductType] = all_tools[k][ProductType]
      ]_vars

\* C6 amended: Product Type is non-empty after post-processing; it is
\* "AI Tool" whenever parsing left it empty, and otherwise is the parsed
\* value (which may itself be "AI Tool").
C6_ProductTypeDefaulted ==
    [][ PostStep =>
          /\ all_tools'[k][ProductType] # <<>>
          /\ all_tools[k][ProductType] = <<>> => all_tools'[k][ProductType] = AI_TOOL
          /\ all_tools[k][ProductType] # <<>> =>
                all_tools'[k][ProductType] = all_tools[k][ProductType]
      ]_vars

\* C6 witness: marker, name - no Product Type was parsed and the record
\* carries the sentinel
C6_Witness ==
    /\ PostDone(1) /\ n = 2 /\ line = P_Name
    /\ all_tools[1][ProductType] = AI_TOOL

\* the category the keyword priority selects for a record
PriorityCategory(tool) ==
    IF \/ Contains(tool[ShortDescription], WRITING)
       \/ Contains(tool[FullDescription][Introduction], WRITING)
    THEN AI_WRITING_ASSISTANT
    ELSE IF \/ Contains(tool[ShortDescription], IMAGE)
            \/ Contains(tool[FullDescription][Introduction], IMAGE)
         THEN AI_IMAGE_GENERATION_TOOL
         ELSE AI_TOOL

\* C7: post-processing turns an empty Category into the one-element list the
\* priority Writing, Image, fallback selects from Short Description and the
\* (normalized) Introduction, keeps the entries of a non-empty Category, and
\* so leaves no record with an empty Category.
C7_CategoryDefault ==
    [][ PostStep =>
          /\ all_tools[k][Category] = <<>> =>
                all_tools'[k][Category] = <<PriorityCategory(all_tools'[k])>>
          /\ all_tools[k][Category] # <<>> =>
                Elements(all_tools'[k][Category]) = Elements(all_tools[k][Category])
          /\ all_tools'[k][Category] # <<>>
      ]_vars

\* C7 witness: marker, name, "Short Description: Writing Image" - both
\* keywords are present and the writing-assistant category was chosen
C7_Witness ==
    /\ PostDone(1) /\ n = 3 /\ line = P_Short
    /\ Contains(all_tools[1][ShortDescription], IMAGE)
    /\ all_tools[1][Category] = <<AI_WRITING_ASSISTANT>>

\* C8: the output collection grows only at a marker line or at end of
\* input, by one record put at its end: at a marker the record that was
\* open, which a fresh record then replaces, and at end of input the open
\* record, after which nothing is appended.
C8_GrowsInMarkerOrder ==
    [][ /\ (Len(all_tools') # Len(all_tools)) =>
              \/ MarkerStep /\ all_tools' = Append(all_tools, current_tool)
                            /\ current_tool' = NewToolRecord
              \/ EndStep /\ all_tools' = Append(all_tools, current_tool')
        /\ (ParagraphStep /\ ~MarkerStep) => Len(all_tools') = Len(all_tools)
        /\ pc # "parse" => Len(all_tools') = Len(all_tools)
      ]_vars

\* C8 witness: marker, "Acme", marker, ".example/path", end of input - two
\* records, in the order of their markers
C8_Witness ==
    /\ pc = "post" /\ k = 1 /\ n = 4
    /\ Len(all_tools) = 2
    /\ all_tools[1][ToolName] = P_Name
    /\ all_tools[2][ToolName] = P_Continuation

\* C9: a step leaves every record that is already in the output collection
\* unchanged, unless it is a step of the post-processing loop.
C9_EmittedRecordsFrozen ==
    [][ \/ pc = "post"
        \/ \A i \in 1..Len(all_tools) :
              i <= Len(all_tools') /\ all_tools'[i] = all_tools[i]
      ]_vars

\* C9 witness: a record has been emitted and lines of the next record have
\* been processed since
C9_Witness ==
    /\ pc = "parse" /\ n = 4
    /\ Len(all_tools) = 1
    /\ Named(current_tool)
    /\ ~expect_tool_name_value

\* C10: when the input ends with a named record open and a fragment pending,
\* the emitted record holds the fragment: as the last entry of Screenshots
\* when Screenshots is the field in progress, else as the value of the URL
\* field in progress.
C10_PendingFragmentFinalized ==
    [][ (EndStep /\ Named(current_tool) /\ Truthy(partial_url)) =>
          /\ Len(all_tools') = Len(all_tools) + 1
          /\ In(current_key, URL_FIELDS)
          /\ LET emitted == all_tools'[Len(all_tools')]
             IN  IF current_key = Screenshots
                 THEN emitted[Screenshots] = Append(current_tool[Screenshots], partial_url)
                 ELSE emitted[current_key] = partial_url
      ]_vars

\* C10 witness: marker, name, "Logo: acme", end of input - the fragment that
\* is still pending is the Logo of the emitted record
C10_Witness ==
    /\ pc = "post" /\ k = 1 /\ n = 3
    /\ Len(all_tools) = 1
    /\ current_key = Logo
    /\ Truthy(partial_url)
    /\ all_tools[1][Logo] = partial_url

\* C11: no sequence of input lines brings the assembler to an error state:
\* every line is processed without an exception being raised.
C11_NoErrorState == pc # "error"

\* C12: clean_text is idempotent: for the text of every paragraph read,
\* cleaning the cleaned text again gives the cleaned text.
C12_CleanTextIdempotent ==
    line # None => clean_text(clean_text(line)) = clean_text(line)

\* the record has exactly the twelve fields, and its Full Description is a
\* mapping with exactly the seven subsections
FixedShape(tool) ==
    /\ DOMAIN tool = Elements(FIELDS)
    /\ IsDict(tool[FullDescription])
    /\ DOMAIN tool[FullDescription] = Elements(FULL_DESCRIPTION_SUBSECTIONS)

\* C13: from the moment a record is opened until after post-processing it
\* has exactly the twelve fixed fields, and Full Description is a mapping
\* with exactly the seven subsection names; no step changes that shape.
C13_FixedSchema ==
    /\ current_tool # NoTool => FixedShape(current_tool)
    /\ \A i \in 1..Len(all_tools) : FixedShape(all_tools[i])

\* C14: while a fragment is pending and a record is open, a line that is not
\* a marker leaves the field in progress, the subsection in progress and the
\* two mode flags as they are, and changes no field of the record other than
\* the field in progress - whatever the shape of the line.
C14_PendingUrlFrame ==
    [][ ( /\ ParagraphStep
          /\ current_tool # NoTool
          /\ Truthy(partial_url)
          /\ ~is_new_tool(line') )
        => /\ current_key' = current_key
           /\ current_subsection' = current_subsection
           /\ in_full_description' = in_full_description
           /\ in_screenshots' = in_screenshots
           /\ all_tools' = all_tools
           /\ DOMAIN current_tool' = DOMAIN current_tool
           /\ \A f \in DOMAIN current_tool :
                 f # current_key => current_tool'[f] = current_tool[f]
      ]_vars

\* C14 witness: marker, name, "Logo: acme", "Category: c" - the line with the
\* shape of a field declaration went into the pending fragment, and neither
\* the field in progress nor the Category changed
C14_Witness ==
    /\ pc = "parse" /\ n = 4 /\ line = P_Category
    /\ current_key = Logo
    /\ partial_url = <<"a","c","m","e"," ">> \o P_Category
    /\ current_tool[ToolName] = P_Name
    /\ current_tool[Category] = <<>>

\* this step processes, in screenshots mode, a line that is no declaration,
\* yields no URL and does not start with a URL scheme
ScreenshotsExitStep ==
    /\ ParagraphStep
    /\ current_tool # NoTool /\ ~expect_tool_name_value
    /\ ~Truthy(partial_url)
    /\ in_screenshots
    /\ line' # <<>> /\ ~is_new_tool(line')
    /\ matched_field(line') = None
    /\ ~is_logo_line(line') /\ ~is_screenshots_line(line')
    /\ extract_url(clean_text(line')) = None
    /\ ~StartsWithScheme(clean_text(line'))

\* C15 as claimed: such a line leaves screenshots mode and is processed in
\* the same step as a general continuation against the field in progress:
\* its comma-separated entries are appended to that list field.
C15_ExitReprocessesLine ==
    [][ ScreenshotsExitStep =>
          /\ in_screenshots' = FALSE
          /\ current_tool'[current_key] =
                current_tool[current_key] \o SplitValues(clean_text(line'))
      ]_vars

\* C15 amended: such a line leaves screenshots mode and is dropped: the step
\* clears the mode flag and changes neither the record, nor the pending
\* fragment, nor the rest of the cursor, nor the output.
C15_ExitDropsLine ==
    [][ ScreenshotsExitStep =>
          /\ in_screenshots' = FALSE
          /\ current_tool' = current_tool
          /\ partial_url' = partial_url
          /\ current_key' = current_key
          /\ current_subsection' = current_subsection
          /\ in_full_description' = in_full_description
          /\ all_tools' = all_tools
      ]_vars

\* C15 witness: marker, name, "Screenshots:", "Acme" - the plain line ended
\* screenshots mode and left no trace in the record or the pending fragment
C15_Witness ==
    /\ pc = "parse" /\ n = 4 /\ line = P_Name
    /\ current_key = Screenshots /\ ~in_screenshots
    /\ partial_url = None
    /\ current_tool = [NewToolRecord EXCEPT ![ToolName] = P_Name]

\* this step processes, inside the long description, a line that is neither
\* a marker nor the declaration of a field (generic or special-cased)
DescriptionStep ==
    /\ ParagraphStep
    /\ current_tool # NoTool /\ ~expect_tool_name_value
    /\ in_full_description
    /\ line' # <<>> /\ ~is_new_tool(line')
    /\ matched_field(line') = None
    /\ ~is_logo_line(line') /\ ~is_screenshots_line(line')

\* the mapping m with the text of subsection s replaced by text
WithSubsection(m, s, text) == [x \in DOMAIN m |-> IF x = s THEN text ELSE m[x]]

\* C16: inside the long description such a line changes no field other than
\* Full Description; a subsection declaration replaces the text of its
\* subsection by the inline value; another line is appended, after a space,
\* to the subsection in progress; with no subsection in progress the record
\* is unchanged.
C16_DescriptionFrame ==
    [][ DescriptionStep =>
          /\ \A f \in DOMAIN current_tool :
                f # FullDescription => current_tool'[f] = current_tool[f]
          /\ IF matched_subsection(line') # None
             THEN /\ IsDict(current_tool'[FullDescription])
                  /\ IsDict(current_tool[FullDescription])
                  /\ current_tool'[FullDescription] =
                        WithSubsection(current_tool[FullDescription],
                                       matched_subsection(line'), subsection_value(line'))
             ELSE IF current_subsection # None
                  THEN /\ IsDict(current_tool'[FullDescription])
                       /\ IsDict(current_tool[FullDescription])
                       /\ current_tool'[FullDescription] =
                             WithSubsection(current_tool[FullDescription], current_subsection,
                                            current_tool[FullDescription][current_subsection]
                                                \o <<" ">> \o clean_text(line'))
                  ELSE current_tool' = current_tool
      ]_vars

\* this step processes the line that follows a marker
ExpectNameStep ==
    /\ ParagraphStep
    /\ expect_tool_name_value
    /\ line' # <<>> /\ ~is_new_tool(line')

\* this step processes, in an open record whose name line has been read, a
\* line that is neither a marker nor a declaration of Tool Name
LaterLineStep ==
    /\ ParagraphStep
    /\ current_tool # NoTool /\ ~expect_tool_name_value
    /\ ~is_new_tool(line')
    /\ matched_field(line') # ToolName

\* the line is plain: not blank and no declaration of any field
PlainLine(t) ==
    /\ t # <<>>
    /\ matched_field(t) = None
    /\ ~is_logo_line(t) /\ ~is_screenshots_line(t)

\* C17 as claimed: the line that follows the marker sets Tool Name to its
\* normalized text and clears the flag, and no later line of the record
\* other than a Tool Name declaration changes Tool Name.
C17_NameSetOnce ==
    [][ /\ ExpectNameStep =>
              /\ current_tool'[ToolName] = clean_text(line')
              /\ ~expect_tool_name_value'
        /\ LaterLineStep => current_tool'[ToolName] = current_tool[ToolName]
      ]_vars

\* C17 amended: the line that follows the marker sets Tool Name to its
\* normalized text and clears the flag; Tool Name stays the field in
\* progress, so a later plain line is appended to it, after a space, as long
\* as no other field has been declared, and once another field is in
\* progress no such line changes Tool Name.
C17_NameContinues ==
    [][ /\ ExpectNameStep =>
              /\ current_tool'[ToolName] = clean_text(line')
              /\ ~expect_tool_name_value'
              /\ current_key' = ToolName
        /\ (LaterLineStep /\ current_key # ToolName) =>
              current_tool'[ToolName] = current_tool[ToolName]
        /\ (LaterLineStep /\ current_key = ToolName /\ PlainLine(line')) =>
              current_tool'[ToolName] =
                  current_tool[ToolName] \o <<" ">> \o clean_text(line')
      ]_vars

\* C17 witness: marker, "Acme", ".example/path" - the flag is cleared and the
\* plain line after the name line was appended to Tool Name
C17_Witness ==
    /\ pc = "parse" /\ n = 3 /\ line = P_Continuation
    /\ ~expect_tool_name_value
    /\ current_key = ToolName
    /\ current_tool[ToolName] = P_Name \o <<" ">> \o P_Continuation

\* C18 as claimed: whenever the pending fragment is not None, a record is
\* open and the field in progress is one of the URL fields.
C18_PendingOnlyForUrlField ==
    partial_url # None =>
        /\ current_tool # NoTool
        /\ In(current_key, URL_FIELDS)

\* C18 amended: whenever the pending fragment is a non-empty text - the test
\* under which the code assigns it - a record is open and the field in
\* progress is one of the URL fields.
C18_FragmentOnlyForUrlField ==
    Truthy(partial_url) =>
        /\ current_tool # NoTool
        /\ In(current_key, URL_FIELDS)

\* C18 witness: marker, name, "Logo: acme", "https://x" - the pending
\* fragment was assigned to the Logo and the URL of the line is pending
C18_Witness ==
    /\ pc = "parse" /\ n = 4 /\ line = P_Url
    /\ current_key = Logo
    /\ current_tool[Logo] = <<"a","c","m","e">>
    /\ partial_url = P_Url

\* C19: in every state the long-description flag is set exactly when the
\* field in progress is Full Description, the screenshots flag is set only
\* when the field in progress is Screenshots, the two flags are never both
\* set, and a subsection is in progress only while the long-description flag
\* is set.
C19_CursorFlagsConsistent ==
    /\ in_full_description <=> (current_key = FullDescription)
    /\ in_screenshots => current_key = Screenshots
    /\ ~(in_full_description /\ in_screenshots)
    /\ current_subsection # None => in_full_description

\* C19 witness: marker, name, "Full Description:", "#### Introduction: Image"
\* - the long-description flag is set and a subsection is in progress
C19_Witness ==
    /\ pc = "parse" /\ n = 4 /\ line = P_Intro
    /\ in_full_description /\ ~in_screenshots
    /\ current_key = FullDescription
    /\ current_subsection = Introduction
    /\ current_tool[FullDescription][Introduction] = IMAGE

\* C20: a marker that arrives while a fragment is pending discards the
\* fragment: the record being closed is emitted as it is, without the
\* fragment assigned to any field, and the new record starts empty with no
\* fragment pending.
C20_PendingDiscardedAtMarker ==
    [][ (MarkerStep /\ Truthy(partial_url)) =>
          /\ partial_url' = None
          /\ current_tool' = NewToolRecord
          /\ Named(current_tool) => all_tools' = Append(all_tools, current_tool)
          /\ ~Named(current_tool) => all_tools' = all_tools
      ]_vars

\* C20 witness: marker, name, "Logo: acme", marker - the record was emitted
\* with an empty Logo and nothing is pending for the new record
C20_Witness ==
    /\ pc = "parse" /\ n = 4 /\ line = P_Marker
    /\ all_tools = << [NewToolRecord EXCEPT ![ToolName] = P_Name] >>
    /\ current_tool = NewToolRecord
    /\ partial_url = None

====
